---- MODULE Spec2Model ----
(***************************************************************************)
(* Model of procure's process module (src/src/process/mod.rs): the scan of *)
(* a process-table directory (pids_from_path), the decoding of one         *)
(* process (process_from_path, read_stat_file) and the snapshot            *)
(* (processes_from_path, Processes::next).                                 *)
(*                                                                         *)
(* Text is a sequence of one-character strings.  A panic (unwrap/expect on *)
(* a failure) unwinds through the caller: it is the control state          *)
(* "panicked".                                                             *)
(***************************************************************************)
EXTENDS Integers, Sequences, FiniteSets, TLC

\* ------------------------------------------------------------------ bounds

\* Entries in the root directory of a tree.
MaxEntries == 2
\* Files the environment removes during one behaviour.
MaxRemovals == 1
\* Calls of processes_from_path on the same tree.
MaxRuns == 2
\* A field that read_stat_file never sets reads as one of 0..MaxUnset.
MaxUnset == 1

\* -------------------------------------------------------------------- text

DigitChars == <<"0", "1", "2", "3", "4", "5", "6", "7", "8", "9">>
DigitSet == {DigitChars[i] : i \in 1..10}
DigitVal(c) == (CHOOSE i \in 1..10 : DigitChars[i] = c) - 1

\* char::is_whitespace, for the characters that occur in the modelled files
Whitespace == {" ", "\n", "\t"}

RECURSIVE TrimStart(_)
TrimStart(s) ==
  IF s # <<>> /\ Head(s) \in Whitespace THEN TrimStart(Tail(s)) ELSE s

RECURSIVE TrimEnd(_)
TrimEnd(s) ==
  IF s # <<>> /\ s[Len(s)] \in Whitespace
  THEN TrimEnd(SubSeq(s, 1, Len(s) - 1))
  ELSE s

\* str::trim
Trim(s) == TrimEnd(TrimStart(s))

\* The fields of s[lo..hi] (halving keeps the evaluation shallow): the last
\* field of the left half and the first of the right half are one field.
RECURSIVE SplitRange(_, _, _)
SplitRange(s, lo, hi) ==
  IF lo > hi THEN <<<<>>>>
  ELSE IF lo = hi THEN (IF s[lo] = " " THEN <<<<>>, <<>>>> ELSE <<<<s[lo]>>>>)
  ELSE LET mid == (lo + hi) \div 2
           l == SplitRange(s, lo, mid)
           r == SplitRange(s, mid + 1, hi)
       IN SubSeq(l, 1, Len(l) - 1) \o <<l[Len(l)] \o r[1]>> \o Tail(r)

\* str::split(' '): a field ends at every single space, so n spaces give
\* n + 1 fields, empty ones included.
Split(s) == SplitRange(s, 1, Len(s))

RECURSIVE StripZeros(_)
StripZeros(d) ==
  IF Len(d) > 1 /\ Head(d) = "0" THEN StripZeros(Tail(d)) ELSE d

RECURSIVE ToNat(_)
ToNat(d) ==
  IF d = <<>> THEN 0 ELSE 10 * ToNat(SubSeq(d, 1, Len(d) - 1)) + DigitVal(d[Len(d)])

\* a <= b for digit strings without leading zeros
RECURSIVE DigitsLeq(_, _)
DigitsLeq(a, b) ==
  IF Len(a) # Len(b) THEN Len(a) < Len(b)
  ELSE IF a = <<>> THEN TRUE
  ELSE IF Head(a) # Head(b) THEN DigitVal(Head(a)) < DigitVal(Head(b))
  ELSE DigitsLeq(Tail(a), Tail(b))

\* Largest magnitudes of the integer types of ProcessStat, as digit strings.
MaxMagnitude(ty, neg) ==
  CASE ty = "i32" /\ ~neg -> <<"2","1","4","7","4","8","3","6","4","7">>
    [] ty = "i32" /\ neg -> <<"2","1","4","7","4","8","3","6","4","8">>
    [] ty = "u32" -> <<"4","2","9","4","9","6","7","2","9","5">>
    [] ty = "i64" /\ ~neg ->
         <<"9","2","2","3","3","7","2","0","3","6","8","5","4","7","7","5","8","0","7">>
    [] ty = "i64" /\ neg ->
         <<"9","2","2","3","3","7","2","0","3","6","8","5","4","7","7","5","8","0","8">>
    [] ty = "u64" ->
         <<"1","8","4","4","6","7","4","4","0","7","3","7","0","9","5","5","1","6","1","5">>

Signed(ty) == ty \in {"i32", "i64"}

ParseFail == [ok |-> FALSE, val |-> 0]

\* A variant of the parse that takes digits only, no sign.
ParseIntDigitsOnly(s, ty) ==
  IF s = <<>> \/ \E i \in 1..Len(s) : s[i] \notin DigitSet
  THEN ParseFail
  ELSE IF ~DigitsLeq(StripZeros(s), MaxMagnitude(ty, FALSE)) THEN ParseFail
  ELSE [ok |-> TRUE, val |-> ToNat(StripZeros(s))]

\* str::parse::<ty>() for the integer types: an optional '+' (and, for a
\* signed type, '-'), then at least one decimal digit, and a value the type
\* holds.  The modelled files keep every value below 2^31, where the
\* model checker's integers are exact.
ParseInt(s, ty) ==
  IF s = <<>> THEN ParseFail
  ELSE
    LET neg == Signed(ty) /\ Head(s) = "-"
        digits == IF Head(s) = "+" \/ neg THEN Tail(s) ELSE s
    IN IF digits = <<>> \/ \E i \in 1..Len(digits) : digits[i] \notin DigitSet
       THEN ParseFail
       ELSE IF ~DigitsLeq(StripZeros(digits), MaxMagnitude(ty, neg)) THEN ParseFail
       ELSE [ok |-> TRUE,
             val |-> IF neg THEN 0 - ToNat(StripZeros(digits))
                     ELSE ToNat(StripZeros(digits))]

RECURSIVE NatDigits(_)
NatDigits(n) ==
  IF n < 10 THEN <<DigitChars[n + 1]>>
  ELSE Append(NatDigits(n \div 10), DigitChars[(n % 10) + 1])

\* format!("{}", pid) for an i32
FormatI32(n) == IF n < 0 THEN <<"-">> \o NatDigits(0 - n) ELSE NatDigits(n)

\* ------------------------------------------------------------- ProcessStat

\* The fields of ProcessStat in declaration order, which is also the order
\* in which read_stat_file takes them from the line.
FieldNames == <<
  "pid", "comm", "state", "ppid", "pgrp", "session", "tty_nr", "tpgid",
  "flags", "minflt", "cminflt", "majflt", "cmajflt", "utime", "stime",
  "cutime", "cstime", "priority", "nice", "num_threads", "itrealvalue",
  "starttime", "vsize", "rss", "rsslim", "startcode", "endcode",
  "startstack", "kstkesp", "kstkeip", "signal", "blocked", "sigignore",
  "sigcatch", "wchan", "nswap", "cnswap", "exit_signal", "processor",
  "rt_priority", "policy", "delayacct_blkio_ticks", "guest_time",
  "cguesttime", "start_data", "end_data", "start_brk", "arg_start",
  "arg_end", "env_start", "env_end", "exit_code" >>

FieldTypes == <<
  "i32", "String", "char", "i32", "i32", "i32", "i32", "i32", "u32", "u64",
  "u64", "u64", "u64", "u64", "u64", "i64", "i64", "i64", "i64", "i64",
  "i64", "u64", "u64", "i32", "u64", "u64", "u64", "u64", "u64", "u64",
  "u64", "u64", "u64", "u64", "u64", "u64", "u64", "i32", "i32", "u32",
  "u32", "u64", "u64", "i64", "u64", "u64", "u64", "u64", "u64", "u64",
  "u64", "u64" >>

NFields == Len(FieldNames)

FieldIndex(name) == CHOOSE i \in 1..NFields : FieldNames[i] = name

ParseOk(v) == [ok |-> TRUE, val |-> v]

\* One field of the struct literal of read_stat_file, from the trimmed token.
\* comm is the token itself; state is its first character (chars().next()),
\* and there is none in an empty token; every other field is parsed as its
\* integer type.
ParseField(tok, ty) ==
  CASE ty = "String" -> ParseOk(tok)
    [] ty = "char" -> IF tok = <<>> THEN ParseFail ELSE ParseOk(Head(tok))
    [] OTHER -> ParseInt(tok, ty)

\* A file of the tree: present with its text, or absent.
NoFile == [present |-> FALSE, text |-> <<>>]
FileOf(text) == [present |-> TRUE, text |-> text]

\* Field i of the struct literal: fields.next() is None when the line has
\* fewer than i fields.
FieldResult(toks, i) ==
  IF i > Len(toks) THEN ParseFail ELSE ParseField(Trim(toks[i]), FieldTypes[i])

FieldResults(toks) == [i \in 1..NFields |-> FieldResult(toks, i)]

NoStat == [n \in {} |-> 0]

StatOf(results) ==
  [n \in {FieldNames[i] : i \in 1..NFields} |-> results[FieldIndex(n)].val]

OpenFailed ==
  [kind |-> "panic", msg |-> "Failed to open stat path", parsed |-> 0,
   stat |-> NoStat]

\* A variant of read_stat_file that keeps going after a field that does not
\* parse, leaving the field at its default.
read_stat_file_lenient(file) ==
  IF ~file.present THEN OpenFailed
  ELSE
    LET results == FieldResults(Split(file.text))
        bad == {i \in 1..NFields : ~results[i].ok}
    IN [kind |-> "ok", msg |-> "", parsed |-> NFields - Cardinality(bad),
        stat |-> StatOf(results)]

\* read_stat_file: the struct literal evaluates its fields in order, so the
\* first field that is missing or does not parse panics and nothing is
\* returned.  parsed counts the fields taken before that.
read_stat_file(file) ==
  IF ~file.present THEN OpenFailed
  ELSE
    LET toks == Split(file.text)
        results == FieldResults(toks)
        bad == {i \in 1..NFields : ~results[i].ok}
        first == CHOOSE i \in bad : \A j \in bad : i <= j
    IN IF bad = {}
       THEN [kind |-> "ok", msg |-> "", parsed |-> NFields,
             stat |-> StatOf(results)]
       ELSE [kind |-> "panic",
             msg |-> IF first > Len(toks) \/ FieldTypes[first] = "char"
                     THEN "called Option::unwrap() on a None value"
                     ELSE "called Result::unwrap() on an Err value",
             parsed |-> first - 1, stat |-> NoStat]

\* The value process_from_path gets from a field that ProcessStat does not
\* declare and read_stat_file never sets (stat.cpu_time): any of these.
UnsetValues == 0..MaxUnset

\* The Process literal of process_from_path.  cpu_percent, which no
\* operation reads, is left out.
MakeProcess(pid, cmd, stat, unset) ==
  [pid |-> pid, command |-> cmd, start_time |-> stat.starttime,
   rss |-> stat.rss, vsz |-> stat.vsize, cpu_time |-> unset]

\* ------------------------------------------------------------------- trees

RECURSIVE Join(_)
Join(toks) ==
  IF Len(toks) = 1 THEN toks[1] ELSE toks[1] \o <<" ">> \o Join(Tail(toks))

\* A stat line as the kernel writes it: the pid, the name in parentheses, the
\* state, and field i of the schema holding the number i; a newline ends it.
StatTokens(pidText, name) ==
  [i \in 1..NFields |->
     CASE i = 1 -> pidText
       [] i = 2 -> <<"(">> \o name \o <<")">>
       [] i = 3 -> <<"S">>
       [] OTHER -> NatDigits(i)]

PlainName == <<"s", "h">>
SpacedName == <<"a", " ", "b">>
ParenName == <<"a", ")", "b">>

StatKinds == {"good", "spaced", "paren", "badnum", "short"}
Kinds == StatKinds \cup {"nocmd", "nostat"}
WellFormedKinds == {"good", "spaced", "paren"}

NameOfKind(kind) ==
  CASE kind = "spaced" -> SpacedName
    [] kind = "paren" -> ParenName
    [] OTHER -> PlainName

StatText(kind, pidText) ==
  LET toks == StatTokens(pidText, NameOfKind(kind))
      line == CASE kind = "badnum" ->
                     [toks EXCEPT ![FieldIndex("utime")] = <<"x">>]
                [] kind = "short" -> SubSeq(toks, 1, NFields \div 2)
                [] OTHER -> toks
  IN Join(line) \o <<"\n">>

CmdlineText == <<"/", "s", "b", "i", "n", "/", "i", "n", "i", "t">>

\* The directory root/<name> of a tree of the given kind.
DirOf(name, kind) ==
  [cmdline |-> IF kind = "nocmd" THEN NoFile ELSE FileOf(CmdlineText),
   stat |-> IF kind = "nostat" THEN NoFile ELSE FileOf(StatText(kind, name))]

Entry(name) == [ok |-> TRUE, unicode |-> TRUE, name |-> name]

Range(s) == {s[i] : i \in 1..Len(s)}

\* The sequences of at most n distinct elements of S.
RECURSIVE SeqsUpTo(_, _)
SeqsUpTo(S, n) ==
  IF n = 0 THEN {<<>>}
  ELSE LET shorter == SeqsUpTo(S, n - 1)
           longest == {t \in shorter : Len(t) = n - 1}
       IN shorter \cup UNION {{Append(t, e) : e \in S \ Range(t)} : t \in longest}

\* The names of the entries of the scanned trees: two process directories,
\* a directory whose name parses to a pid it is not the decimal text of, and
\* a pseudo-file.
ScanNames == {<<"1">>, <<"2">>, <<"+", "1">>, <<"s", "e", "l", "f">>}

\* The entries of the listed trees: names read_dir can yield, an entry whose
\* read fails (ok = FALSE) and a name that is not unicode.
PidEntryFixtures ==
  {Entry(n) : n \in {<<"1">>, <<"1", "6", "0", "1", "8">>, <<"0">>, <<"-", "5">>,
                     <<"+", "7">>, <<"0", "0", "7">>, <<"1", "a">>,
                     <<"s", "e", "l", "f">>,
                     <<"2", "1", "4", "7", "4", "8", "3", "6", "4", "7">>,
                     <<"2", "1", "4", "7", "4", "8", "3", "6", "4", "8">>}}
  \cup {[ok |-> FALSE, unicode |-> TRUE, name |-> <<"3">>],
        [ok |-> TRUE, unicode |-> FALSE, name |-> <<"4">>]}

\* The name is the decimal text of the pid it parses to.
Canonical(name) ==
  LET r == ParseInt(name, "i32") IN r.ok /\ FormatI32(r.val) = name

KindsFor(name) == IF Canonical(name) THEN Kinds ELSE {"good"}

\* ------------------------------------------------------------------- state

VARIABLES
  rootOk,      \* read_dir(root) succeeds
  entries,     \* the entries read_dir(root) yields, in directory order
  fs,          \* name of a directory of root -> its cmdline and stat files
  kindOf,      \* ghost: name -> the kind of directory the tree was built with
  api,         \* the function the caller called
  pc,          \* where the call is
  dirPos,      \* next entry of the read_dir iterator
  cur,         \* pid: the argument of the running process_from_path
  command,     \* command: the text read from cmdline
  statRes,     \* what read_stat_file gave the running process_from_path
  collected,   \* processes: the Vec that processes_from_path collects
  iterPos,     \* next element of the into_iter() of that Vec
  pulled,      \* the records the caller got from Processes::next
  pidsOut,     \* the pids the caller got from Pids::next
  panicMsg,    \* the message of the panic that ended the call
  runs,        \* calls made so far
  outcomes,    \* what each finished call gave its caller
  removals,    \* files removed so far
  decodes,     \* ghost: calls of process_from_path in this call
  listed,      \* ghost: pids the scanner yielded in this call
  cmdRead,     \* ghost: pids whose cmdline was read in this call
  statParsed,  \* ghost: pids whose stat line gave all NFields fields
  vanished,    \* ghost: pids that lost a file after being listed, before it was read
  unsetTicks   \* what stat.cpu_time, which read_stat_file never sets, reads as

vars == <<rootOk, entries, fs, kindOf, api, pc, dirPos, cur, command, statRes,
          collected, iterPos, pulled, pidsOut, panicMsg, runs, outcomes,
          removals, decodes, listed, cmdRead, statParsed, vanished,
          unsetTicks>>

tree == <<rootOk, entries, kindOf, unsetTicks>>
ghosts == <<decodes, listed, cmdRead, statParsed, vanished>>

NoStatRes == [kind |-> "none", msg |-> "", parsed |-> 0, stat |-> NoStat]

\* The state of a caller that has called nothing yet.
Fresh ==
  /\ api = "none" /\ pc = "idle" /\ dirPos = 0 /\ cur = 0
  /\ command = <<>> /\ statRes = NoStatRes
  /\ collected = <<>> /\ iterPos = 1 /\ pulled = <<>> /\ pidsOut = <<>>
  /\ panicMsg = "" /\ runs = 0 /\ outcomes = <<>> /\ removals = 0
  /\ decodes = 0 /\ listed = <<>> /\ cmdRead = {} /\ statParsed = {}
  /\ vanished = {}
  /\ unsetTicks \in UnsetValues

\* A tree for the snapshot: every directory is of one of the kinds.
Init ==
  /\ \E names \in SeqsUpTo(ScanNames, MaxEntries), ro \in BOOLEAN :
       /\ ro \/ names = <<>>
       /\ \E k \in [Range(names) -> Kinds] :
            /\ \A n \in Range(names) : k[n] \in KindsFor(n)
            /\ rootOk = ro
            /\ entries = [i \in 1..Len(names) |-> Entry(names[i])]
            /\ kindOf = k
            /\ fs = [n \in Range(names) |-> DirOf(n, k[n])]
  /\ Fresh

\* A tree for the listing alone: only the entries matter.
InitPids ==
  /\ \E ents \in SeqsUpTo(PidEntryFixtures, MaxEntries), ro \in BOOLEAN :
       /\ ro \/ ents = <<>>
       /\ rootOk = ro
       /\ entries = ents
  /\ kindOf = [n \in {} |-> "good"]
  /\ fs = [n \in {} |-> DirOf(n, "good")]
  /\ Fresh

FileAt(name, which) == IF name \in DOMAIN fs THEN fs[name][which] ELSE NoFile

\* -------------------------------------------------------------- operations

NotFound == [found |-> FALSE, pid |-> 0, pos |-> 0]

\* One next() of the iterator pids_from_path builds: the three filter_maps
\* pass over the entries whose read failed, whose name is not unicode or does
\* not parse as an i32, up to the first entry that does.
RECURSIVE PidsNext(_, _)
PidsNext(ents, pos) ==
  IF pos > Len(ents) THEN [NotFound EXCEPT !.pos = pos]
  ELSE LET e == ents[pos]
           r == ParseInt(e.name, "i32")
       IN IF e.ok /\ e.unicode /\ r.ok
          THEN [found |-> TRUE, pid |-> r.val, pos |-> pos + 1]
          ELSE PidsNext(ents, pos + 1)

Panic(msg) == pc' = "panicked" /\ panicMsg' = msg

\* pids_from_path(root): read_dir(root).unwrap(), then the lazy iterator.
CallPids ==
  /\ pc = "idle" /\ runs < MaxRuns
  /\ api' = "pids" /\ runs' = runs + 1
  /\ IF rootOk
     THEN pc' = "pids_iter" /\ dirPos' = 1 /\ UNCHANGED panicMsg
     ELSE Panic("called Result::unwrap() on an Err value") /\ UNCHANGED dirPos
  /\ UNCHANGED <<tree, fs, cur, command, statRes, collected, iterPos, pulled,
                 pidsOut, outcomes, removals, ghosts>>

\* Pids::next
PidsIterNext ==
  /\ pc = "pids_iter"
  /\ LET r == PidsNext(entries, dirPos)
     IN /\ dirPos' = r.pos
        /\ IF r.found
           THEN pidsOut' = Append(pidsOut, r.pid) /\ UNCHANGED pc
           ELSE pc' = "pids_done" /\ UNCHANGED pidsOut
  /\ UNCHANGED <<tree, fs, api, cur, command, statRes, collected, iterPos,
                 pulled, panicMsg, runs, outcomes, removals, ghosts>>

\* A processes_from_path that hands back its iterator without running
\* collect().
ReturnUncollected == "returned"

\* Where processes_from_path goes once pids_from_path has given the scanner:
\* into collect(), which runs inside the call.
AfterPidsFromPath == "next_pid"

\* processes_from_path(root), up to the start of collect(): pids_from_path.
CallProcesses ==
  /\ pc = "idle" /\ runs < MaxRuns
  /\ api' = "processes" /\ runs' = runs + 1
  /\ IF rootOk
     THEN pc' = AfterPidsFromPath /\ dirPos' = 1 /\ UNCHANGED panicMsg
     ELSE Panic("called Result::unwrap() on an Err value") /\ UNCHANGED dirPos
  /\ UNCHANGED <<tree, fs, cur, command, statRes, collected, iterPos, pulled,
                 pidsOut, outcomes, removals, ghosts>>

\* One turn of collect(): the next pid of the scanner, handed to
\* process_from_path; when there is none, the Vec is complete and
\* processes_from_path returns the iterator over it.
CollectNext ==
  /\ pc = "next_pid"
  /\ LET r == PidsNext(entries, dirPos)
     IN /\ dirPos' = r.pos
        /\ IF r.found
           THEN /\ cur' = r.pid /\ pc' = "open_cmdline"
                /\ listed' = Append(listed, r.pid)
                /\ decodes' = decodes + 1
                /\ UNCHANGED iterPos
           ELSE /\ pc' = "returned" /\ iterPos' = 1
                /\ UNCHANGED <<cur, listed, decodes>>
  /\ UNCHANGED <<tree, fs, api, command, statRes, collected, pulled, pidsOut,
                 panicMsg, runs, outcomes, removals, cmdRead, statParsed,
                 vanished>>

\* process_from_path: open and read root/<pid>/cmdline.
OpenCmdline ==
  /\ pc = "open_cmdline"
  /\ LET f == FileAt(FormatI32(cur), "cmdline")
     IN IF f.present
        THEN /\ command' = f.text /\ pc' = "read_stat"
             /\ cmdRead' = cmdRead \cup {cur}
             /\ UNCHANGED panicMsg
        ELSE /\ Panic("Failed to open path")
             /\ UNCHANGED <<command, cmdRead>>
  /\ UNCHANGED <<tree, fs, api, dirPos, cur, statRes, collected, iterPos,
                 pulled, pidsOut, runs, outcomes, removals, decodes, listed,
                 statParsed, vanished>>

\* process_from_path: read_stat_file(root/<pid>/stat).
ReadStat ==
  /\ pc = "read_stat"
  /\ LET r == read_stat_file(FileAt(FormatI32(cur), "stat"))
     IN /\ statRes' = r
        /\ statParsed' = IF r.parsed = NFields THEN statParsed \cup {cur}
                         ELSE statParsed
        /\ IF r.kind = "ok"
           THEN pc' = "build" /\ UNCHANGED panicMsg
           ELSE Panic(r.msg)
  /\ UNCHANGED <<tree, fs, api, dirPos, cur, command, collected, iterPos,
                 pulled, pidsOut, runs, outcomes, removals, decodes, listed,
                 cmdRead, vanished>>

\* process_from_path: Ok(Process { .. }), pushed by collect().
BuildProcess ==
  /\ pc = "build"
  /\ collected' = Append(collected,
                         [kind |-> "Ok",
                          process |-> MakeProcess(cur, command, statRes.stat,
                                                  unsetTicks)])
  /\ pc' = "next_pid"
  /\ UNCHANGED <<tree, fs, api, dirPos, cur, command, statRes, iterPos, pulled,
                 pidsOut, panicMsg, runs, outcomes, removals, ghosts>>

\* The first Ok at or after position i of the Vec, or Len + 1.
RECURSIVE NextOk(_, _)
NextOk(results, i) ==
  IF i > Len(results) \/ results[i].kind = "Ok" THEN i ELSE NextOk(results, i + 1)

Exhausted == pc = "returned" /\ NextOk(collected, iterPos) > Len(collected)

\* Processes::next: the next element of into_iter().filter_map(|p| p.ok()).
ProcessesNext ==
  /\ pc = "returned" /\ ~Exhausted
  /\ LET i == NextOk(collected, iterPos)
     IN iterPos' = i + 1 /\ pulled' = Append(pulled, collected[i].process)
  /\ UNCHANGED <<tree, fs, api, pc, dirPos, cur, command, statRes, collected,
                 pidsOut, panicMsg, runs, outcomes, removals, ghosts>>

\* The environment: the process being decoded exits and one of its files
\* that process_from_path has not read yet goes away.  (A file that is gone
\* before its directory is listed is a tree of kind nocmd or nostat.)
RemoveFile ==
  /\ removals < MaxRemovals
  /\ pc \in {"open_cmdline", "read_stat"}
  /\ FormatI32(cur) \in DOMAIN fs
  /\ \E which \in {"cmdline", "stat"} :
       /\ pc = "read_stat" => which = "stat"
       /\ fs[FormatI32(cur)][which].present
       /\ fs' = [fs EXCEPT ![FormatI32(cur)][which] = NoFile]
  /\ vanished' = vanished \cup {cur}
  /\ removals' = removals + 1
  /\ UNCHANGED <<tree, api, pc, dirPos, cur, command, statRes, collected,
                 iterPos, pulled, pidsOut, panicMsg, runs, outcomes, decodes,
                 listed, cmdRead, statParsed>>

PidsOf(records) == [i \in 1..Len(records) |-> records[i].pid]

Finished == pc = "panicked" \/ Exhausted

\* The caller is done with a call of processes_from_path (it consumed the
\* sequence, or the panic reached it) and is ready to call again.
Finish ==
  /\ api = "processes" /\ Finished /\ runs < MaxRuns
  /\ outcomes' = Append(outcomes, [kind |-> pc, pids |-> PidsOf(pulled),
                                   removals |-> removals])
  /\ pc' = "idle" /\ api' = "none" /\ dirPos' = 0 /\ cur' = 0
  /\ command' = <<>> /\ statRes' = NoStatRes /\ collected' = <<>>
  /\ iterPos' = 1 /\ pulled' = <<>> /\ panicMsg' = ""
  /\ decodes' = 0 /\ listed' = <<>> /\ cmdRead' = {} /\ statParsed' = {}
  /\ vanished' = {}
  /\ UNCHANGED <<tree, fs, pidsOut, runs, removals>>

Next ==
  \/ CallProcesses
  \/ CollectNext
  \/ OpenCmdline
  \/ ReadStat
  \/ BuildProcess
  \/ ProcessesNext
  \/ RemoveFile

\* One call of processes_from_path on a tree.
Spec == Init /\ [][Next]_vars

NextRerun == Next \/ Finish

\* Up to MaxRuns calls of processes_from_path on the same tree.
SpecRerun == Init /\ [][NextRerun]_vars

NextPids == CallPids \/ PidsIterNext

\* One call of pids_from_path on a tree.
SpecPids == InitPids /\ [][NextPids]_vars

\* ------------------------------------------------------------------ claims

\* The records processes_from_path has produced: those in the Vec and those
\* the caller has pulled.
Emitted ==
  {collected[i].process : i \in {j \in 1..Len(collected) : collected[j].kind = "Ok"}}
    \cup Range(pulled)

\* process_from_path(root, P) is running.
Decoding(P) == cur = P /\ pc \in {"open_cmdline", "read_stat", "build"}

\* The kind of the directory process_from_path(root, P) reads.
KindOfPid(P) ==
  IF FormatI32(P) \in DOMAIN kindOf THEN kindOf[FormatI32(P)] ELSE "absent"

\* A name that is the text of a 32-bit signed integer: an optional sign and
\* decimal digits, the value within the type.
I32Name(name) ==
  /\ name # <<>>
  /\ LET body == IF Head(name) \in {"+", "-"} THEN Tail(name) ELSE name
     IN /\ body # <<>>
        /\ \A i \in 1..Len(body) : body[i] \in DigitSet
        /\ DigitsLeq(StripZeros(body), MaxMagnitude("i32", Head(name) = "-"))

I32Value(name) ==
  LET body == IF Head(name) \in {"+", "-"} THEN Tail(name) ELSE name
  IN IF Head(name) = "-" THEN 0 - ToNat(StripZeros(body)) ELSE ToNat(StripZeros(body))

\* A name that is the text of a positive process id: digits only, not zero.
PositiveName(name) ==
  /\ I32Name(name)
  /\ Head(name) \notin {"+", "-"}
  /\ I32Value(name) > 0

\* The positions of the entries whose name is readable and satisfies P.
Named(P(_)) ==
  {i \in 1..Len(entries) : entries[i].ok /\ entries[i].unicode /\ P(entries[i].name)}

Count(s, v) == Cardinality({i \in 1..Len(s) : s[i] = v})

\* s holds, as a multiset, the values of the entries at the positions idx.
SameMultiset(s, idx) ==
  /\ Len(s) = Cardinality(idx)
  /\ \A v \in Range(s) :
       Count(s, v) = Cardinality({i \in idx : I32Value(entries[i].name) = v})

\* C1: a listed identifier P that loses its cmdline or stat file before
\* process_from_path reads it is skipped: once its decode is over the call
\* has not panicked and no record of P has been produced.
C1_VanishedIsSkipped ==
  \A P \in vanished :
    ~Decoding(P) => pc # "panicked" /\ \A r \in Emitted : r.pid # P

\* C2: a listed identifier P whose stat line has a non-numeric token in a
\* numeric position, or too few fields, is skipped without a crash: once its
\* decode is over the call has not panicked and no record of P has been
\* produced; and calls on the same unchanged tree end the same way.
C2_MalformedIsSkipped ==
  /\ \A P \in Range(listed) :
       KindOfPid(P) \in {"badnum", "short"} /\ ~Decoding(P)
         => pc # "panicked" /\ \A r \in Emitted : r.pid # P
  /\ \A i, j \in 1..Len(outcomes) :
       outcomes[i].removals = 0 /\ outcomes[j].removals = 0
         => outcomes[i] = outcomes[j]

\* read_stat_file has read the stat line of the process being decoded.
StatLineRead ==
  /\ \/ pc = "build"
     \/ pc = "panicked" /\ statRes.kind = "panic"
  /\ statRes # OpenFailed

\* C3: for a stat line "<pid> (<name>) <state> <f4> ... <fN>" whose name
\* holds a space or a ')', read_stat_file returns comm = the text
\* between the first '(' and the last ')' and every later field the token at
\* its schema position counted after the last ')' (field i of the line
\* written by StatText holds the number i, the state is S).
C3_NameAndPositions ==
  StatLineRead /\ KindOfPid(cur) \in {"spaced", "paren"} /\ cur \notin vanished
    => /\ statRes.kind = "ok"
       /\ statRes.stat.comm = NameOfKind(KindOfPid(cur))
       /\ statRes.stat.state = "S"
       /\ \A i \in 4..NFields : statRes.stat[FieldNames[i]] = i

\* C4: every record processes_from_path has produced has a pid the scanner
\* yielded in this call, whose cmdline was read and whose stat line gave all
\* the fields of the schema.
C4_EmittedFullyRead ==
  \A r \in Emitted :
    r.pid \in Range(listed) /\ r.pid \in cmdRead /\ r.pid \in statParsed

\* C4 witness: two records were collected and the caller pulled one.
C4_Witness ==
  /\ Len(collected) = 2 /\ Len(pulled) = 1
  /\ pulled[1].pid \in statParsed

RECURSIVE ScanFrom(_)
ScanFrom(pos) ==
  LET r == PidsNext(entries, pos)
  IN IF r.found THEN <<r.pid>> \o ScanFrom(r.pos) ELSE <<>>

WellFormedPid(P) == KindOfPid(P) \in WellFormedKinds

\* C6: on a readable tree that does not change, a finished call of
\* processes_from_path has returned and has given exactly one record for each
\* identifier of the scanner whose files are present and well-formed, and
\* none for any other.
C6_OneRecordPerGoodPid ==
  Finished /\ rootOk /\ removals = 0
    => /\ pc = "returned"
       /\ PidsOf(pulled) = SelectSeq(ScanFrom(1), WellFormedPid)

\* C7: the call fails when the root cannot be enumerated, and that is the
\* only thing that makes it fail: a missing or malformed file of one process
\* never does.
C7_OnlyRootFails ==
  /\ api # "none" /\ ~rootOk => pc = "panicked"
  /\ pc = "panicked" => ~rootOk

\* C8: a failed decode gives its caller a failure value of one of two kinds:
\* NotFound when the cmdline or stat file could not be opened, a parse
\* failure when the stat line does not match the schema.
C8_TwoFailureKinds ==
  pc = "panicked" /\ rootOk
    => /\ Len(collected) = decodes
       /\ collected[decodes].kind = "Err"
       /\ collected[decodes].err =
            IF panicMsg \in {"Failed to open path", "Failed to open stat path"}
            THEN "NotFound" ELSE "ParseError"

\* C9: the record of a decoded identifier has cpu_time = utime + stime of
\* its stat record, and start_time, rss and vsz equal to starttime, rss and
\* vsize.
C9_CpuTimeIsSum ==
  pc = "next_pid" /\ collected # <<>>
    => LET r == collected[Len(collected)].process
           s == statRes.stat
       IN /\ r.cpu_time = s.utime + s.stime
          /\ r.start_time = s.starttime
          /\ r.rss = s.rss
          /\ r.vsz = s.vsize

\* The decode attempts needed for the first n records: the position in the
\* Vec of the n-th success.
RECURSIVE NeededFor(_)
NeededFor(n) == IF n = 0 THEN 0 ELSE NextOk(collected, NeededFor(n - 1) + 1)

====
